---------------------------- MODULE Spec2Model ----------------------------
(***************************************************************************)
(* minigrep (src/lib.rs): Config::build, run, search and                   *)
(* search_case_intensive.                                                  *)
(*                                                                         *)
(* Text is a sequence of characters; a character is a one-word string      *)
(* ("a", "A", "SIGMA" for U+03A3, "sigma" for U+03C3, "fsigma" for U+03C2, *)
(* "LF" for U+000A, "CR" for U+000D, "APOS" for U+0027).  Option<T> is a   *)
(* sequence of length 0 (None) or 1 (Some).                                *)
(***************************************************************************)
EXTENDS Integers, Sequences, FiniteSets

VARIABLES
    argv,         \* the iterator handed to Config::build, as the sequence it yields
    env,          \* the process environment's entry for IGNORE_CASE
    file,         \* the one file of the file system: its path and what it holds
    pc,           \* where the build-then-run call sequence stands
    build_ret,    \* Option<Result<Config, &'static str>> returned by build
    reads,        \* the paths fs::read_to_string was called on, in order
    contents,     \* Option<String>: run's local `contents`
    results,      \* Option<Vec<&str>>: the vector the for loop iterates
    idx,          \* how many elements of the vector the for loop has consumed
    stdout,       \* the characters written to standard output
    write_failed, \* a write to standard output has failed
    run_ret       \* Option<Result<(), Box<dyn Error>>> returned by run

vars == <<argv, env, file, pc, build_ret, reads, contents, results, idx,
          stdout, write_failed, run_ret>>

----------------------------------------------------------------------------
(* Bounds *)

MaxArgs == 4
MaxFileLen == 3
MaxQueryLen == 2
MaxCorpusLen == 3

Strings(S, n) == UNION {[1..k -> S] : k \in 0..n}

\* Characters of the queries and corpora the search functions are applied to.
Chars == {"a", "A", "SIGMA", "APOS", "LF", "CR"}
\* Arguments of the build-then-run sequence: queries and file paths alike.
ArgPool == {<<"a">>, <<"A">>}
FileChars == {"a", "A", "LF"}

None == <<>>
Some(x) == <<x>>
IsSome(o) == Len(o) = 1
Unwrap(o) == o[1]

----------------------------------------------------------------------------
(* str::to_lowercase *)

\* core::unicode::Cased
Cased(c) == c \in {"a", "A", "SIGMA", "sigma", "fsigma"}

\* core::unicode::Case_Ignorable
Case_Ignorable(c) == c \in {"APOS"}

\* core::unicode::conversions::to_lower, one character to one character here
to_lower(c) == IF c = "A" THEN "a" ELSE c

Reverse(s) == [i \in 1..Len(s) |-> s[Len(s) + 1 - i]]

RECURSIVE case_ignorable_then_cased(_)
case_ignorable_then_cased(iter) ==
    IF iter = <<>> THEN FALSE
    ELSE IF Case_Ignorable(Head(iter)) THEN case_ignorable_then_cased(Tail(iter))
    ELSE Cased(Head(iter))

\* SIGMA maps to sigma, except at the end of a word where it maps to fsigma.
map_uppercase_sigma(from, i) ==
    LET is_word_final ==
            /\ case_ignorable_then_cased(Reverse(SubSeq(from, 1, i - 1)))
            /\ ~case_ignorable_then_cased(SubSeq(from, i + 1, Len(from)))
    IN  IF is_word_final THEN "fsigma" ELSE "sigma"

to_lowercase(s) ==
    [i \in 1..Len(s) |->
        IF s[i] = "SIGMA" THEN map_uppercase_sigma(s, i) ELSE to_lower(s[i])]

----------------------------------------------------------------------------
(* str::contains and str::lines *)

contains_empty_needle_false(haystack, needle) ==
    /\ Len(needle) > 0
    /\ \E i \in 0..(Len(haystack) - Len(needle)) :
           SubSeq(haystack, i + 1, i + Len(needle)) = needle

contains(haystack, needle) ==
    /\ Len(needle) <= Len(haystack)
    /\ \E i \in 0..(Len(haystack) - Len(needle)) :
           SubSeq(haystack, i + 1, i + Len(needle)) = needle

\* str::split_inclusive('\n'): every piece but possibly the last ends in LF.
RECURSIVE split_inclusive(_, _)
split_inclusive(s, cur) ==
    IF s = <<>> THEN (IF cur = <<>> THEN <<>> ELSE <<cur>>)
    ELSE IF Head(s) = "LF"
         THEN <<Append(cur, "LF")>> \o split_inclusive(Tail(s), <<>>)
         ELSE split_inclusive(Tail(s), Append(cur, Head(s)))

strip_suffix(s, c) ==
    IF Len(s) > 0 /\ s[Len(s)] = c THEN Some(SubSeq(s, 1, Len(s) - 1)) ELSE None

\* The closure str::lines maps over the pieces.
strip_line_ending(piece) ==
    LET nl == strip_suffix(piece, "LF")
    IN  IF ~IsSome(nl) THEN piece
        ELSE LET cr == strip_suffix(Unwrap(nl), "CR")
             IN  IF ~IsSome(cr) THEN Unwrap(nl) ELSE Unwrap(cr)

lines_keeps_cr(s) ==
    LET pieces == split_inclusive(s, <<>>)
    IN  [k \in 1..Len(pieces) |->
            IF IsSome(strip_suffix(pieces[k], "LF"))
            THEN Unwrap(strip_suffix(pieces[k], "LF")) ELSE pieces[k]]

\* self.split_inclusive('\n').map(strip the line ending)
lines(s) ==
    LET pieces == split_inclusive(s, <<>>)
    IN  [k \in 1..Len(pieces) |-> strip_line_ending(pieces[k])]

----------------------------------------------------------------------------
(* search, search_case_intensive *)

search_inverted(query, text) ==
    SelectSeq(lines(text), LAMBDA line : ~contains(line, query))

search(query, text) ==
    SelectSeq(lines(text), LAMBDA line : contains(line, query))

search_case_intensive_query_not_lowered(query, text) ==
    SelectSeq(lines(text), LAMBDA line : contains(to_lowercase(line), query))

search_case_intensive(query, text) ==
    LET q == to_lowercase(query)
    IN  SelectSeq(lines(text), LAMBDA line : contains(to_lowercase(line), q))

----------------------------------------------------------------------------
(* Config::build *)

Ok(v) == [ok |-> TRUE, val |-> Some(v), err |-> ""]
Err(e) == [ok |-> FALSE, val |-> None, err |-> e]

\* Iterator::next on the sequence: the item, if any, and what is left.
next(it) ==
    IF it = <<>> THEN [item |-> None, rest |-> <<>>]
    ELSE [item |-> Some(Head(it)), rest |-> Tail(it)]

\* env::var("IGNORE_CASE"): Err when the variable is absent (NotPresent) and
\* when its value is not valid Unicode (NotUnicode).
env_var(e) ==
    IF ~e.set THEN Err("NotPresent")
    ELSE IF ~e.unicode THEN Err("NotUnicode")
    ELSE Ok(e.value)

Config(query, file_path, ignore_case) ==
    [query |-> query, file_path |-> file_path, ignore_case |-> ignore_case]

build_exactly_three(args, e) ==
    IF Len(args) < 2 THEN Err("Didn't get a query string")
    ELSE IF Len(args) # 3 THEN Err("Didn't get a file path")
    ELSE Ok(Config(args[2], args[3], env_var(e).ok))

build(args, e) ==
    LET a0 == next(args)
        a1 == next(a0.rest)
        a2 == next(a1.rest)
    IN  IF ~IsSome(a1.item) THEN Err("Didn't get a query string")
        ELSE IF ~IsSome(a2.item) THEN Err("Didn't get a file path")
        ELSE Ok(Config(Unwrap(a1.item), Unwrap(a2.item), env_var(e).ok))

----------------------------------------------------------------------------
(* run *)

\* fs::read_to_string: the file's text, or the io::Error kind.
read_to_string(path) ==
    IF file.path # path THEN Err("NotFound")
    ELSE IF ~file.valid_utf8 THEN Err("InvalidData")
    ELSE Ok(file.text)

config == Unwrap(build_ret.val)

\* println!("{line}"): the line and a line feed.
println(out, line) == out \o line \o <<"LF">>

NotStarted == [ok |-> FALSE, val |-> None, err |-> "not returned"]

Build ==
    /\ pc = "start"
    /\ build_ret' = build(argv, env)
    /\ pc' = IF build_ret'.ok THEN "built" ELSE "build_failed"
    /\ UNCHANGED <<argv, env, file, reads, contents, results, idx, stdout,
                   write_failed, run_ret>>

RunReadFile_unwrap_or_default ==
    /\ pc = "built"
    /\ reads' = Append(reads, config.file_path)
    /\ LET r == read_to_string(config.file_path)
       IN  /\ contents' = IF r.ok THEN r.val ELSE Some(<<>>)
           /\ pc' = "read"
           /\ run_ret' = run_ret
    /\ UNCHANGED <<argv, env, file, build_ret, results, idx, stdout, write_failed>>

\* let contents = fs::read_to_string(config.file_path)?;
RunReadFile ==
    /\ pc = "built"
    /\ reads' = Append(reads, config.file_path)
    /\ LET r == read_to_string(config.file_path)
       IN  IF r.ok
           THEN /\ contents' = r.val
                /\ pc' = "read"
                /\ run_ret' = run_ret
           ELSE /\ contents' = contents
                /\ pc' = "returned"
                /\ run_ret' = Err(r.err)
    /\ UNCHANGED <<argv, env, file, build_ret, results, idx, stdout, write_failed>>

RunSearch_dispatch_inverted ==
    /\ pc = "read"
    /\ results' = IF config.ignore_case
                  THEN Some(search(config.query, Unwrap(contents)))
                  ELSE Some(search_case_intensive(config.query, Unwrap(contents)))
    /\ idx' = 0
    /\ pc' = "printing"
    /\ UNCHANGED <<argv, env, file, build_ret, reads, contents, stdout,
                   write_failed, run_ret>>

\* if !config.ignore_case { search(..) } else { search_case_intensive(..) }
RunSearch ==
    /\ pc = "read"
    /\ results' = IF ~config.ignore_case
                  THEN Some(search(config.query, Unwrap(contents)))
                  ELSE Some(search_case_intensive(config.query, Unwrap(contents)))
    /\ idx' = 0
    /\ pc' = "printing"
    /\ UNCHANGED <<argv, env, file, build_ret, reads, contents, stdout,
                   write_failed, run_ret>>

\* One iteration of the for loop whose println! succeeds.
RunPrintln ==
    /\ pc = "printing"
    /\ idx < Len(Unwrap(results))
    /\ stdout' = println(stdout, Unwrap(results)[idx + 1])
    /\ idx' = idx + 1
    /\ UNCHANGED <<argv, env, file, pc, build_ret, reads, contents, results,
                   write_failed, run_ret>>

\* One iteration of the for loop whose println! fails: println! panics
\* ("failed printing to stdout"), run does not return.
RunPrintlnFails ==
    /\ pc = "printing"
    /\ idx < Len(Unwrap(results))
    /\ write_failed' = TRUE
    /\ pc' = "panicked"
    /\ UNCHANGED <<argv, env, file, build_ret, reads, contents, results, idx,
                   stdout, run_ret>>

\* Ok(())
RunReturn ==
    /\ pc = "printing"
    /\ idx = Len(Unwrap(results))
    /\ run_ret' = Ok("unit")
    /\ pc' = "returned"
    /\ UNCHANGED <<argv, env, file, build_ret, reads, contents, results, idx,
                   stdout, write_failed>>

----------------------------------------------------------------------------
(* Specifications *)

EnvStates ==
    { [set |-> FALSE, unicode |-> TRUE, value |-> <<>>],
      [set |-> TRUE, unicode |-> TRUE, value |-> <<>>],
      [set |-> TRUE, unicode |-> TRUE, value |-> <<"0">>],
      [set |-> TRUE, unicode |-> FALSE, value |-> <<>>] }

Files ==
    { [path |-> p, valid_utf8 |-> TRUE, text |-> t] :
          p \in ArgPool, t \in Strings(FileChars, MaxFileLen) }
    \cup { [path |-> p, valid_utf8 |-> FALSE, text |-> <<>>] : p \in ArgPool }

\* The program: build on the arguments, then run on the Config it returned.
Init ==
    /\ argv \in Strings(ArgPool, MaxArgs)
    /\ env \in EnvStates
    /\ file \in Files
    /\ pc = "start"
    /\ build_ret = NotStarted
    /\ reads = <<>>
    /\ contents = None
    /\ results = None
    /\ idx = 0
    /\ stdout = <<>>
    /\ write_failed = FALSE
    /\ run_ret = NotStarted

Next ==
    \/ Build
    \/ RunReadFile
    \/ RunSearch
    \/ RunPrintln
    \/ RunPrintlnFails
    \/ RunReturn

Spec == Init /\ [][Next]_vars

\* The search step of run on every bounded query and corpus: run has read the
\* corpus from the file the Config names and is about to search it.
InitSearch ==
    /\ \E q \in Strings(Chars, MaxQueryLen), c \in Strings(Chars, MaxCorpusLen),
          e \in {s \in EnvStates : s.unicode /\ s.value = <<>>} :
          /\ argv = <<<<"a">>, q, <<"a">>>>
          /\ env = e
          /\ file = [path |-> <<"a">>, valid_utf8 |-> TRUE, text |-> c]
          /\ build_ret = build(argv, env)
          /\ contents = Some(c)
    /\ pc = "read"
    /\ reads = <<config.file_path>>
    /\ results = None
    /\ idx = 0
    /\ stdout = <<>>
    /\ write_failed = FALSE
    /\ run_ret = NotStarted

NextSearch == RunSearch

SpecSearch == InitSearch /\ [][NextSearch]_vars

----------------------------------------------------------------------------
(* What the claims speak of, stated without the operators above *)

\* The positions of the line feeds of corpus c.
LFPositions(c) == {i \in 1..Len(c) : c[i] = "LF"}

\* The k-th smallest element of a set of numbers.
KthSmallest(S, k) == CHOOSE i \in S : Cardinality({j \in S : j <= i}) = k

\* The number of lines of c: one per line feed, and one more for a final
\* part that no line feed ends.
LineCount(c) ==
    Cardinality(LFPositions(c))
        + (IF Len(c) > 0 /\ c[Len(c)] # "LF" THEN 1 ELSE 0)

\* The k-th line of c: what lies between the line feed before it and the line
\* feed (or the end of c) after it, less one carriage return right before
\* that line feed.
LineAt(c, k) ==
    LET P == LFPositions(c)
        first == IF k = 1 THEN 1 ELSE KthSmallest(P, k - 1) + 1
        ended == k <= Cardinality(P)
        last == IF ended THEN KthSmallest(P, k) - 1 ELSE Len(c)
        raw == SubSeq(c, first, last)
    IN  IF ended /\ Len(raw) > 0 /\ raw[Len(raw)] = "CR"
        THEN SubSeq(raw, 1, Len(raw) - 1)
        ELSE raw

LinesOf(c) == [k \in 1..LineCount(c) |-> LineAt(c, k)]

\* q occurs in l as a contiguous substring.
Occurs(q, l) == \E i \in 0..Len(l), j \in 0..Len(l) : i <= j /\ SubSeq(l, i + 1, j) = q

\* res is L restricted to the positions I: the element at each position of
\* I once, in the order of L, and nothing else.
IsSelection(res, L, I) ==
    /\ Len(res) = Cardinality(I)
    /\ \A k \in 1..Len(res) : res[k] = L[KthSmallest(I, k)]

RECURSIVE IsSubsequence(_, _)
IsSubsequence(a, b) ==
    IF a = <<>> THEN TRUE
    ELSE IF b = <<>> THEN FALSE
    ELSE IF Head(a) = Head(b) THEN IsSubsequence(Tail(a), Tail(b))
    ELSE IsSubsequence(a, Tail(b))

IsPrefix(a, b) == Len(a) <= Len(b) /\ SubSeq(b, 1, Len(a)) = a

\* Two texts that differ at most in the case of ASCII letters.
AsciiCaseEqual(s, t) ==
    /\ Len(s) = Len(t)
    /\ \A i \in 1..Len(s) : s[i] = t[i] \/ {s[i], t[i]} = {"a", "A"}

IsLetter(c) == c \in {"a", "A", "SIGMA", "sigma", "fsigma"}

\* The lines, each followed by a line feed, one after the other.
RECURSIVE OneLinePerLine(_)
OneLinePerLine(ls) ==
    IF ls = <<>> THEN <<>> ELSE Head(ls) \o <<"LF">> \o OneLinePerLine(Tail(ls))

Searched == pc = "printing" /\ IsSome(results) /\ idx = 0 /\ stdout = <<>>

----------------------------------------------------------------------------
(* Claims *)

\* C1: search(q, C) is exactly the lines of C that contain q as a contiguous
\* case-sensitive substring: every returned line contains q, every line of C
\* that contains q is returned, in the order of C, once per position the line
\* has in C (duplicate lines each appear, a line with several occurrences of
\* q appears once).
C1_SearchReturnsExactlyTheMatchingLines ==
    (Searched /\ ~config.ignore_case) =>
        LET q == config.query
            L == LinesOf(Unwrap(contents))
            res == Unwrap(results)
        IN  /\ \A k \in 1..Len(res) : Occurs(q, res[k])
            /\ IsSelection(res, L, {i \in 1..Len(L) : Occurs(q, L[i])})

C1_Witness ==
    /\ Searched /\ ~config.ignore_case
    /\ config.query = <<"a">>
    /\ Unwrap(contents) = <<"A", "LF", "a">>
    /\ Unwrap(results) = << <<"a">> >>

\* C2: search_case_intensive(q, C) is, in the order of C, exactly the lines L
\* of C for which lowercase(L) contains lowercase(q); each returned element is
\* the line's original text; a line that differs from the query only in the
\* case of ASCII letters is returned.
C2_CaseInsensitiveReturnsExactlyTheLoweredMatches ==
    (Searched /\ config.ignore_case) =>
        LET q == config.query
            L == LinesOf(Unwrap(contents))
            res == Unwrap(results)
        IN  /\ IsSelection(res, L,
                   {i \in 1..Len(L) : Occurs(to_lowercase(q), to_lowercase(L[i]))})
            /\ \A i \in 1..Len(L) :
                   AsciiCaseEqual(L[i], q) => \E k \in 1..Len(res) : res[k] = L[i]

C2_Witness ==
    /\ Searched /\ config.ignore_case
    /\ config.query = <<"a", "A">>
    /\ Unwrap(contents) = <<"A", "a">>
    /\ Unwrap(results) = << <<"A", "a">> >>

\* C3: Config::build is decided by position: fewer than 2 elements fail with
\* the missing-query error, exactly 2 with the missing-file-path error, 3 or
\* more succeed with query = args[1] and file_path = args[2] (0-based),
\* whatever args[0] and the elements from position 3 on are.
C3_BuildIsDecidedByPosition ==
    (pc # "start") =>
        /\ Len(argv) < 2 => build_ret = Err("Didn't get a query string")
        /\ Len(argv) = 2 => build_ret = Err("Didn't get a file path")
        /\ Len(argv) >= 3 =>
               /\ build_ret.ok
               /\ config.query = argv[2]
               /\ config.file_path = argv[3]

C3_Witness ==
    /\ pc = "built"
    /\ argv = << <<"A">>, <<"a">>, <<"A">>, <<"a">> >>
    /\ config.query = <<"a">>
    /\ config.file_path = <<"A">>

\* C4: whenever build succeeds, ignore_case is true if and only if IGNORE_CASE
\* is set, whatever its value.
C4_IgnoreCaseIffVariableIsSet ==
    (pc = "built") => (config.ignore_case <=> env.set)

\* C5: every line search(q, C) returns, search_case_intensive(q, C) returns
\* too, in the same order; and when q has no letters the two return the same
\* sequence.
C5_CaseInsensitiveIsSupersetOfCaseSensitive ==
    (Searched /\ ~config.ignore_case) =>
        LET q == config.query
            ci == search_case_intensive(q, Unwrap(contents))
        IN  /\ IsSubsequence(Unwrap(results), ci)
            /\ (\A i \in 1..Len(q) : ~IsLetter(q[i])) => Unwrap(results) = ci

\* C6: no file is read unless build succeeded; nothing is searched and nothing
\* is written unless the file read succeeded; when the file read fails, run
\* returns the file-read error with nothing written.
C6_BuildThenReadThenSearchAndWrite ==
    /\ reads # <<>> => (build_ret.ok /\ reads = <<config.file_path>>)
    /\ pc = "build_failed" =>
           reads = <<>> /\ contents = None /\ results = None /\ stdout = <<>>
    /\ (IsSome(results) \/ stdout # <<>>) =>
           /\ reads # <<>>
           /\ read_to_string(reads[1]).ok
           /\ contents = read_to_string(reads[1]).val
    /\ (reads # <<>> /\ ~read_to_string(reads[1]).ok) =>
           /\ pc = "returned"
           /\ run_ret = Err(read_to_string(reads[1]).err)
           /\ results = None
           /\ stdout = <<>>

C6_Witness ==
    /\ pc = "returned"
    /\ build_ret.ok
    /\ reads = <<config.file_path>>
    /\ file.path = config.file_path
    /\ ~file.valid_utf8
    /\ run_ret = Err("InvalidData")
    /\ stdout = <<>>

\* C7: when a write of a matching line to standard output fails, run returns
\* a failure value at once, the remaining lines unwritten.
C7_WriteFailureIsReturned ==
    write_failed => (pc = "returned" /\ ~run_ret.ok /\ run_ret # NotStarted)

\* C8: after a successful file read, what run writes is the sequence
\* search(query, contents) when ignore_case is false and the sequence
\* search_case_intensive(query, contents) when it is true, one line per output
\* line in that order and nothing else, and run then returns success.
C8_RunWritesTheSelectedSearch ==
    IsSome(contents) =>
        LET expected == IF config.ignore_case
                        THEN search_case_intensive(config.query, Unwrap(contents))
                        ELSE search(config.query, Unwrap(contents))
        IN  /\ IsPrefix(stdout, OneLinePerLine(expected))
            /\ IsSome(results) =>
                   /\ idx <= Len(expected)
                   /\ stdout = OneLinePerLine(SubSeq(expected, 1, idx))
            /\ pc = "returned" =>
                   /\ run_ret = Ok("unit")
                   /\ stdout = OneLinePerLine(expected)

C8_Witness ==
    /\ pc = "returned"
    /\ run_ret = Ok("unit")
    /\ config.ignore_case
    /\ config.query = <<"a">>
    /\ Unwrap(contents) = <<"A", "LF", "a">>
    /\ stdout = <<"A", "LF", "a", "LF">>

\* C9: for every corpus C other than the empty string, search("", C) is every
\* line of C, unchanged and in order, empty lines included.
C9_EmptyQueryReturnsEveryLine ==
    (Searched /\ ~config.ignore_case /\ config.query = <<>>
        /\ Unwrap(contents) # <<>>) =>
        /\ Unwrap(results) = LinesOf(Unwrap(contents))
        /\ Len(Unwrap(results)) = LineCount(Unwrap(contents))

C9_Witness ==
    /\ Searched /\ ~config.ignore_case
    /\ config.query = <<>>
    /\ Unwrap(contents) = <<"LF", "a">>
    /\ Unwrap(results) = << <<>>, <<"a">> >>

\* C10: the line decomposition of both search functions: the empty corpus has
\* no lines (so every search of it is empty); a trailing line feed adds no
\* empty last line; a last part without a line feed is a line; empty lines in
\* between are lines; a carriage return right before a line feed is dropped
\* with it; no line holds a line feed or a carriage-return-line-feed pair.
C10_LineDecomposition ==
    Searched =>
        LET c == Unwrap(contents)
            L == lines(c)
        IN  /\ Len(L) = LineCount(c)
            /\ \A k \in 1..Len(L) : L[k] = LineAt(c, k)
            /\ c = <<>> => (L = <<>> /\ Unwrap(results) = <<>>)
            /\ \A k \in 1..Len(L) : \A i \in 1..Len(L[k]) : L[k][i] # "LF"
            /\ IsSubsequence(Unwrap(results), LinesOf(c))

C10_Witness ==
    /\ Searched
    /\ config.query = <<>>
    /\ Unwrap(contents) = <<"a", "CR", "LF">>
    /\ Unwrap(results) = << <<"a">> >>

=============================================================================
